---- MODULE Spec2Model ----
\* A model of pasataleo/go-graph: the Graph builder (graph.go), the validator
\* (validate.go), the coordinator walker (walker.go, walker.Walk with Opts and
\* a thread pool) and its worker (walk.go, worker.work). Spec and FairSpec are
\* a walk of a built graph; BuildSpec is a caller building and validating one.
EXTENDS Integers, Sequences, FiniteSets, TLC

VARIABLES
    g,            \* the caller's Graph: [nodes, starters, finishers]
    parallelism,  \* opts.Parallelism
    pc,           \* position of the coordinator (walker.Walk), or "build" in the builder
    walker,       \* the walker struct
    cur,          \* the expanded message being applied; in the builder, the last call
    chErrored,    \* channel errored (capacity 1)
    chExpanded,   \* channel expanded (capacity 1)
    chCompleted,  \* channel completed (capacity 1)
    queue,        \* tasks handed to threading.Run and not yet started
    workers,      \* running pool tasks: key -> [state, impl, msg]
    invoked,      \* history: key -> [execute, expand, dispatched] counts
    returned,     \* history: key -> "ok" | "err", the result of a body that returned
    early,        \* history: keys whose body began before a parent was completed
    peak,         \* history: the largest number of node bodies in flight at once
    multi,        \* the error Walk returned: a set of members
    crashed       \* the Go runtime aborted the process

vars == <<g, parallelism, pc, walker, cur, chErrored, chExpanded, chCompleted,
          queue, workers, invoked, returned, early, peak, multi, crashed>>

-----------------------------------------------------------------------------
\* Bounds of the model.

\* Largest opts.Parallelism tried.
MaxP == 2

\* Largest number of Connect calls used to build an input graph.
MaxConnect == 2

\* Largest number of edges of a graph the builder program makes.
MaxEdges == 3

-----------------------------------------------------------------------------
\* Keys, node implementations and the Graph builder (graph.go).

\* Keys are paths: a top-level key is <<"a">>, the nodes an expander k produces
\* are named below it (k \o <<"x">>), as the tests name b1, b2 below b.
TopKeys == {<<"a">>, <<"b">>, <<"c">>}

Executable == [exec |-> TRUE, expand |-> FALSE, sub |-> "none"]

Expandable(sub) == [exec |-> FALSE, expand |-> TRUE, sub |-> sub]

\* An impl with both methods, Execute and Expand.
Both(sub) == [exec |-> TRUE, expand |-> TRUE, sub |-> sub]

\* The subgraph shapes an Expand body may return.
SubShapes == {"empty", "chain", "pair", "nest", "hollow"}

NewNode(key, impl) == [key |-> key, impl |-> impl, parents |-> <<>>, children |-> <<>>]

NewGraph == [nodes |-> <<>>, starters |-> {}, finishers |-> {}]

\* m with key mapped to val (a Go map assignment m[key] = val).
Put(m, key, val) == (key :> val) @@ m

AddNode(graph, key, impl) ==
    IF impl.exec \/ impl.expand
    THEN [nodes |-> Put(graph.nodes, key, NewNode(key, impl)),
          starters |-> graph.starters \cup {key},
          finishers |-> graph.finishers \cup {key}]
    ELSE graph  \* panic: nothing is added

\* Connect that forgets delete(g.finishers, from).
ConnectKeepsFinisher(graph, from, to) ==
    IF from = to \/ from \notin DOMAIN graph.nodes \/ to \notin DOMAIN graph.nodes
    THEN graph
    ELSE [nodes |-> [k \in DOMAIN graph.nodes |->
                        IF k = from
                        THEN [graph.nodes[k] EXCEPT !.children = Append(@, to)]
                        ELSE IF k = to
                        THEN [graph.nodes[k] EXCEPT !.parents = Append(@, from)]
                        ELSE graph.nodes[k]],
          starters |-> graph.starters \ {to},
          finishers |-> graph.finishers]

\* Connect that forgets the append to g.nodes[to].parents.
ConnectOneSided(graph, from, to) ==
    IF from = to \/ from \notin DOMAIN graph.nodes \/ to \notin DOMAIN graph.nodes
    THEN graph
    ELSE [nodes |-> [k \in DOMAIN graph.nodes |->
                        IF k = from
                        THEN [graph.nodes[k] EXCEPT !.children = Append(@, to)]
                        ELSE graph.nodes[k]],
          starters |-> graph.starters \ {to},
          finishers |-> graph.finishers \ {from}]

\* Connect that appends to the children of from before it looks up to.
ConnectAppendsBeforeCheck(graph, from, to) ==
    IF from = to \/ from \notin DOMAIN graph.nodes
    THEN graph
    ELSE [nodes |-> [k \in DOMAIN graph.nodes |->
                        IF k = from
                        THEN [graph.nodes[k] EXCEPT !.children = Append(@, to)]
                        ELSE IF k = to
                        THEN [graph.nodes[k] EXCEPT !.parents = Append(@, from)]
                        ELSE graph.nodes[k]],
          starters |-> graph.starters \ {to},
          finishers |-> graph.finishers \ {from}]

Connect(graph, from, to) ==
    IF from = to \/ from \notin DOMAIN graph.nodes \/ to \notin DOMAIN graph.nodes
    THEN graph  \* panic: nothing is appended
    ELSE [nodes |-> [k \in DOMAIN graph.nodes |->
                        IF k = from
                        THEN [graph.nodes[k] EXCEPT !.children = Append(@, to)]
                        ELSE IF k = to
                        THEN [graph.nodes[k] EXCEPT !.parents = Append(@, from)]
                        ELSE graph.nodes[k]],
          starters |-> graph.starters \ {to},
          finishers |-> graph.finishers \ {from}]

Starters(graph) == graph.starters

Finishers(graph) == graph.finishers

\* The Graph an Expand body of node key returns, by shape.
ExpandResult(key, sub) ==
    LET x == key \o <<"x">>
        y == key \o <<"y">>
        n == key \o <<"n">>
        s == key \o <<"s">>
        two == AddNode(AddNode(NewGraph, x, Executable), y, Executable)
    IN CASE sub = "chain" -> Connect(two, x, y)
         [] sub = "loop"  -> Connect(Connect(two, x, y), y, x)
         [] sub = "lasso" -> Connect(Connect(Connect(AddNode(two, s, Executable),
                                                     s, x), x, y), y, x)
         [] sub = "pair"  -> two
         [] sub = "nest"  -> AddNode(NewGraph, n, Expandable("chain"))
         [] sub = "hollow" -> AddNode(NewGraph, n, Expandable("empty"))
         [] OTHER         -> NewGraph

-----------------------------------------------------------------------------
\* The input graphs: every graph built by AddNode on the top-level keys followed
\* by at most MaxConnect calls of Connect.

\* An impl that is neither Executable nor Expandable: AddNode refuses it.
Neither == [exec |-> FALSE, expand |-> FALSE, sub |-> "none"]

Impls == {Executable, Neither, Both("chain")} \cup {Expandable(sub) : sub \in SubShapes}

RECURSIVE AddAll(_, _, _)
AddAll(graph, keys, impl) ==
    IF keys = {} THEN graph
    ELSE LET k == CHOOSE k \in keys : TRUE
         IN AddAll(AddNode(graph, k, impl[k]), keys \ {k}, impl)

\* The impls tried for each top-level key, up to a renaming of the keys: a node
\* of any kind (b) beside an executable (a) and an optional executable (c), or
\* beside a forking expander (a) alone.
ImplsOf(key) ==
    CASE key = <<"a">> -> {Executable, Expandable("pair")}
      [] key = <<"b">> -> Impls
      [] OTHER         -> {Executable, Neither}

BaseGraphs ==
    {AddAll(NewGraph, TopKeys, impl) :
        impl \in {f \in [TopKeys -> Impls] :
                     /\ \A k \in TopKeys : f[k] \in ImplsOf(k)
                     /\ f[<<"a">>].expand => f[<<"c">>] = Neither}}

RECURSIVE Connected(_)
Connected(n) ==
    IF n = 0 THEN BaseGraphs
    ELSE LET prev == Connected(n - 1)
         IN prev \cup UNION {{Connect(graph, from, to) :
                                 from \in DOMAIN graph.nodes, to \in DOMAIN graph.nodes} :
                             graph \in prev}

InputGraphs == Connected(MaxConnect)

-----------------------------------------------------------------------------
\* The walker struct and its methods (walker.go).

Count(m, key) == IF key \in DOMAIN m THEN m[key] ELSE 0

Incr(m, keys) == [k \in DOMAIN m \cup keys |-> Count(m, k) + (IF k \in keys THEN 1 ELSE 0)]

Range(seq) == {seq[i] : i \in 1..Len(seq)}

\* The zero value of the walker struct (var walker walker): every map is nil.
ZeroWalker ==
    [nodes |-> <<>>, nodesRef |-> "own", pending |-> {}, processing |-> {},
     completed |-> {}, errored |-> <<>>, subgraphStarters |-> <<>>,
     subgraphFinishers |-> <<>>]

\* walker.nodes = graph.nodes: the walker writes the caller's map.
AliasNodes(graph) == "graph"

\* walker.nodes is a fresh map holding a copy of graph.nodes.
CopyNodes(graph) == "own"

\* The maps made at the start of walker.Walk.
WalkerInit(graph) ==
    [nodes |-> graph.nodes, nodesRef |-> CopyNodes(graph),
     pending |-> Starters(graph), processing |-> {},
     completed |-> {}, errored |-> <<>>, subgraphStarters |-> <<>>,
     subgraphFinishers |-> <<>>]

\* Process that forgets delete(walker.pending, key).
ProcessKeepsPending(w) ==
    [w |-> [w EXCEPT !.processing = @ \cup w.pending], ready |-> w.pending]

\* Process that takes one pending key and drops the others.
ProcessDropsRest(w) ==
    IF w.pending = {}
    THEN [w |-> w, ready |-> {}]
    ELSE LET key == CHOOSE key \in w.pending : TRUE
         IN [w |-> [w EXCEPT !.pending = {}, !.processing = @ \cup {key}],
             ready |-> {key}]

\* Process that hands the pending keys out without noting them in processing.
ProcessForgetsProcessing(w) ==
    [w |-> [w EXCEPT !.pending = {}], ready |-> w.pending]

\* Process moves every pending key to processing and returns them.
Process(w) ==
    [w |-> [w EXCEPT !.pending = {}, !.processing = @ \cup w.pending],
     ready |-> w.pending]

\* Empty that looks at pending only.
EmptyIgnoresProcessing(w) == w.pending = {}

Empty(w) == w.pending = {} /\ w.processing = {}

\* Errored that releases the children of the failed node.
ErroredEnqueuesChildren(w, key, err) ==
    [w EXCEPT !.errored = Put(@, key, err), !.processing = @ \ {key},
              !.pending = @ \cup Range(w.nodes[key].children)]

\* Errored that gives up every key in processing, not only the failed one.
ErroredStopsWalk(w, key, err) ==
    [w EXCEPT !.errored = Put(@, key, err), !.processing = {}]

\* Errored that forgets delete(walker.processing, key).
ErroredKeepsProcessing(w, key, err) ==
    [w EXCEPT !.errored = Put(@, key, err)]

Errored(w, key, err) ==
    [w EXCEPT !.errored = Put(@, key, err), !.processing = @ \ {key}]

\* Expand that returns every node of the subgraph, not only its starters.
ExpandStartsAll(w, key, subgraph) ==
    [w |-> [w EXCEPT !.processing = @ \ {key},
                     !.nodes = subgraph.nodes @@ @,
                     !.subgraphStarters = Put(@, key, Finishers(subgraph)),
                     !.subgraphFinishers =
                         [f \in Finishers(subgraph) |-> key] @@ @],
     ready |-> DOMAIN subgraph.nodes]

\* Expand splices the subgraph's nodes into walker.nodes and records its
\* finishers; it returns the subgraph's starters.
Expand(w, key, subgraph) ==
    [w |-> [w EXCEPT !.processing = @ \ {key},
                     !.nodes = subgraph.nodes @@ @,
                     !.subgraphStarters = Put(@, key, Finishers(subgraph)),
                     !.subgraphFinishers =
                         [f \in Finishers(subgraph) |-> key] @@ @],
     ready |-> Starters(subgraph)]

\* A child is taken as ready as soon as one parent completes.
AllParentsCompleteAny(w, child) == TRUE

AllParentsComplete(w, child) ==
    \A parent \in Range(w.nodes[child].parents) : parent \in w.completed

\* Completed that promotes the expander at its first completed finisher.
RECURSIVE CompletedPromotesEarly(_, _)
CompletedPromotesEarly(w, key) ==
    LET w1 == [w EXCEPT !.completed = @ \cup {key}, !.processing = @ \ {key}]
    IN IF key \in DOMAIN w1.subgraphFinishers
       THEN CompletedPromotesEarly(w1, w1.subgraphFinishers[key])
       ELSE [w |-> w1,
             ready |-> Range(SelectSeq(w1.nodes[key].children,
                                       LAMBDA child : AllParentsComplete(w1, child)))]

\* Completed marks key completed, promotes the expander whose last finisher key
\* was, and returns the children whose parents are all completed.
RECURSIVE Completed(_, _)
Completed(w, key) ==
    LET w1 == [w EXCEPT !.completed = @ \cup {key}, !.processing = @ \ {key}]
        starter == w1.subgraphFinishers[key]
        starterComplete ==
            \A finisher \in w1.subgraphStarters[starter] : finisher \in w1.completed
    IN IF key \in DOMAIN w1.subgraphFinishers /\ starterComplete
       THEN Completed(w1, starter)
       ELSE [w |-> w1,
             ready |-> Range(SelectSeq(w1.nodes[key].children,
                                       LAMBDA child : AllParentsComplete(w1, child)))]

\* errors.Append: the multi-error holding the members of every argument.
ErrorsAppend(errs) == UNION Range(errs)

\* A pool made one thread too large.
PoolSizeOffByOne(p) == p + 1

\* The size of the thread pool: threading.NewThreadPool(opts.Parallelism).
PoolSize(p) == p

\* The error the worker reports for a failed body.
FailedNode(key, what) == [code |-> "graph.failed_node", key |-> key, msg |-> what]

IncompleteGraph(w) ==
    [code |-> "graph.incomplete_graph", nodes |-> Cardinality(DOMAIN w.nodes),
     completed |-> Cardinality(w.completed), errored |-> Cardinality(DOMAIN w.errored)]

\* The value walker.Walk returns once the loop has ended; last is the key the
\* iteration over walker.errored visits last.
WalkResult(w, last) ==
    LET m1 == IF DOMAIN w.errored = {} THEN {} ELSE ErrorsAppend(<<{w.errored[last]}>>)
    IN IF Cardinality(DOMAIN w.nodes) # Cardinality(w.completed) + Cardinality(DOMAIN w.errored)
       THEN ErrorsAppend(<<ErrorsAppend(<<m1, {IncompleteGraph(w)}>>)>>)
       ELSE m1

-----------------------------------------------------------------------------
\* The walk: coordinator (walker.Walk) and pool tasks (worker.work).

NoHistory == [execute |-> <<>>, expand |-> <<>>, dispatched |-> <<>>]

Init ==
    /\ g \in InputGraphs
    /\ parallelism \in 1..MaxP
    /\ pc = "idle"
    /\ walker = ZeroWalker
    /\ cur = <<>>
    /\ chErrored = <<>>
    /\ chExpanded = <<>>
    /\ chCompleted = <<>>
    /\ queue = {}
    /\ workers = <<>>
    /\ invoked = NoHistory
    /\ returned = <<>>
    /\ early = {}
    /\ peak = 0
    /\ multi = {}
    /\ crashed = FALSE

\* The node bodies (Execute or Expand calls) in flight.
InFlight(ws) == {k \in DOMAIN ws : ws[k].state \in {"execute", "expand"}}

\* for _, key := range walker.Process() { threading.Run(..., pool, worker.work) }
Dispatch(w) ==
    LET p == Process(w)
    IN /\ walker' = p.w
       /\ queue' = queue \cup p.ready
       /\ invoked' = [invoked EXCEPT !.dispatched = Incr(@, p.ready)]

\* Graph.Walk calls walker.Walk: an empty graph returns nil at once, otherwise
\* the walker's maps are made, the starters are processed and handed to the pool.
WalkBegin ==
    /\ pc = "idle"
    /\ ~crashed
    /\ IF DOMAIN g.nodes = {}
       THEN /\ pc' = "done"
            /\ multi' = {}
            /\ UNCHANGED <<walker, queue, invoked>>
       ELSE /\ pc' = "loop"
            /\ Dispatch(WalkerInit(g))
            /\ UNCHANGED multi
    /\ UNCHANGED <<g, parallelism, cur, chErrored, chExpanded, chCompleted, workers,
                   returned, early, peak, crashed>>

\* The pool starts a task: worker.work looks its node up in walker.nodes and
\* calls the node's body. A lookup that overlaps the coordinator's writes to
\* walker.nodes is a data race on a Go map: the runtime may abort the process.
WorkerStart(key) ==
    /\ ~crashed
    /\ key \in queue
    /\ Cardinality(DOMAIN workers) < PoolSize(parallelism)
    /\ LET node == walker.nodes[key]
           state == IF node.impl.exec THEN "execute" ELSE "expand"
           ws == Put(workers, key, [state |-> state, impl |-> node.impl, msg |-> <<>>])
       IN /\ queue' = queue \ {key}
          /\ workers' = ws
          /\ invoked' = IF node.impl.exec
                        THEN [invoked EXCEPT !.execute = Incr(@, {key})]
                        ELSE [invoked EXCEPT !.expand = Incr(@, {key})]
          /\ early' = IF Range(node.parents) \subseteq walker.completed
                      THEN early ELSE early \cup {key}
          /\ peak' = IF Cardinality(InFlight(ws)) > peak
                     THEN Cardinality(InFlight(ws)) ELSE peak
    /\ UNCHANGED <<g, parallelism, pc, walker, cur, chErrored, chExpanded, chCompleted,
                   returned, multi, crashed>>

\* The racing lookup: the coordinator is inside walker.Expand's loop that
\* writes walker.nodes while the task reads walker.nodes[key].
WorkerRace(key) ==
    /\ ~crashed
    /\ key \in queue
    /\ Cardinality(DOMAIN workers) < PoolSize(parallelism)
    /\ pc = "expand"
    /\ DOMAIN cur.subgraph.nodes # {}
    /\ crashed' = TRUE
    /\ UNCHANGED <<g, parallelism, pc, walker, cur, chErrored, chExpanded, chCompleted,
                   queue, workers, invoked, returned, early, peak, multi>>

\* A node body returns, with an error or without. After an Execute that
\* returned nil the task goes on to Expand when the impl is Expandable too.
BodyReturns(key, ok) ==
    /\ ~crashed
    /\ key \in InFlight(workers)
    /\ LET wk == workers[key]
           next ==
               IF wk.state = "execute"
               THEN IF ~ok
                    THEN [wk EXCEPT !.state = "send",
                             !.msg = [chan |-> "errored", key |-> key,
                                      err |-> FailedNode(key, "failed to execute node")]]
                    ELSE IF wk.impl.expand
                    THEN [wk EXCEPT !.state = "expand"]
                    ELSE [wk EXCEPT !.state = "send",
                             !.msg = [chan |-> "completed", key |-> key]]
               ELSE IF ~ok
                    THEN [wk EXCEPT !.state = "send",
                             !.msg = [chan |-> "errored", key |-> key,
                                      err |-> FailedNode(key, "failed to expand node")]]
                    ELSE [wk EXCEPT !.state = "send",
                             !.msg = [chan |-> "expanded", key |-> key,
                                      subgraph |-> ExpandResult(key, wk.impl.sub)]]
       IN /\ workers' = [workers EXCEPT ![key] = next]
          /\ invoked' = IF next.state = "expand"
                        THEN [invoked EXCEPT !.expand = Incr(@, {key})]
                        ELSE invoked
          /\ returned' = Put(returned, key, IF ok THEN "ok" ELSE "err")
    /\ UNCHANGED <<g, parallelism, pc, walker, cur, chErrored, chExpanded, chCompleted,
                   queue, early, peak, multi, crashed>>

Without(m, key) == [k \in DOMAIN m \ {key} |-> m[k]]

\* The task sends its outcome on the channel of capacity 1 and returns.
WorkerSend(key) ==
    /\ ~crashed
    /\ key \in DOMAIN workers
    /\ workers[key].state = "send"
    /\ LET msg == workers[key].msg
       IN CASE msg.chan = "errored" ->
                 /\ Len(chErrored) < 1
                 /\ chErrored' = Append(chErrored, msg)
                 /\ UNCHANGED <<chExpanded, chCompleted>>
            [] msg.chan = "expanded" ->
                 /\ Len(chExpanded) < 1
                 /\ chExpanded' = Append(chExpanded, msg)
                 /\ UNCHANGED <<chErrored, chCompleted>>
            [] msg.chan = "completed" ->
                 /\ Len(chCompleted) < 1
                 /\ chCompleted' = Append(chCompleted, msg)
                 /\ UNCHANGED <<chErrored, chExpanded>>
    /\ workers' = Without(workers, key)
    /\ UNCHANGED <<g, parallelism, pc, walker, cur, queue, invoked, returned, early,
                   peak, multi, crashed>>

\* case errored := <-errored
RecvErrored ==
    /\ ~crashed
    /\ pc = "loop"
    /\ ~Empty(walker)
    /\ chErrored # <<>>
    /\ LET msg == Head(chErrored)
       IN Dispatch(Errored(walker, msg.key, msg.err))
    /\ chErrored' = Tail(chErrored)
    /\ UNCHANGED <<g, parallelism, pc, cur, chExpanded, chCompleted, workers, returned,
                   early, peak, multi, crashed>>

\* case expanded := <-expanded: the message is taken off the channel.
RecvExpanded ==
    /\ ~crashed
    /\ pc = "loop"
    /\ ~Empty(walker)
    /\ chExpanded # <<>>
    /\ cur' = Head(chExpanded)
    /\ chExpanded' = Tail(chExpanded)
    /\ pc' = "expand"
    /\ UNCHANGED <<g, parallelism, walker, chErrored, chCompleted, queue, workers,
                   invoked, returned, early, peak, multi, crashed>>

\* The caller's node map after the walker wrote its own: the same map when
\* walker.nodes is the graph's map, untouched when it is a copy.
WriteThrough(graph, w) ==
    IF w.nodesRef = "graph" THEN [graph EXCEPT !.nodes = w.nodes] ELSE graph

\* The body of case expanded without the branch for a subgraph that has no
\* starters.
ApplyExpandedSkipsEmpty ==
    /\ ~crashed
    /\ pc = "expand"
    /\ LET ex == Expand(walker, cur.key, cur.subgraph)
           w2 == [ex.w EXCEPT !.pending = @ \cup ex.ready]
       IN /\ Dispatch(w2)
          /\ g' = WriteThrough(g, w2)
    /\ cur' = <<>>
    /\ pc' = "loop"
    /\ UNCHANGED <<parallelism, chErrored, chExpanded, chCompleted, workers, returned,
                   early, peak, multi, crashed>>

\* The body of case expanded: walker.Expand, walker.Completed when the
\* subgraph has no starters, the new pending keys, then Process and Run.
ApplyExpanded ==
    /\ ~crashed
    /\ pc = "expand"
    /\ LET ex == Expand(walker, cur.key, cur.subgraph)
           co == IF ex.ready = {} THEN Completed(ex.w, cur.key) ELSE ex
           w2 == [co.w EXCEPT !.pending = @ \cup co.ready]
       IN /\ Dispatch(w2)
          /\ g' = WriteThrough(g, w2)
    /\ cur' = <<>>
    /\ pc' = "loop"
    /\ UNCHANGED <<parallelism, chErrored, chExpanded, chCompleted, workers, returned,
                   early, peak, multi, crashed>>

\* case completed := <-completed
RecvCompleted ==
    /\ ~crashed
    /\ pc = "loop"
    /\ ~Empty(walker)
    /\ chCompleted # <<>>
    /\ LET co == Completed(walker, Head(chCompleted).key)
       IN Dispatch([co.w EXCEPT !.pending = @ \cup co.ready])
    /\ chCompleted' = Tail(chCompleted)
    /\ UNCHANGED <<g, parallelism, pc, cur, chErrored, chExpanded, workers, returned,
                   early, peak, multi, crashed>>

\* The loop ends: the channels and the pool are closed and Walk returns.
WalkReturn ==
    /\ ~crashed
    /\ pc = "loop"
    /\ Empty(walker)
    /\ \E last \in DOMAIN walker.errored \cup {<<>>} :
          /\ (last = <<>>) = (DOMAIN walker.errored = {})
          /\ multi' = WalkResult(walker, last)
    /\ pc' = "done"
    /\ UNCHANGED <<g, parallelism, walker, cur, chErrored, chExpanded, chCompleted,
                   queue, workers, invoked, returned, early, peak, crashed>>

\* The caller walks the same Graph again, with a new walker.
WalkAgain ==
    /\ ~crashed
    /\ pc = "done"
    /\ pc' = "idle"
    /\ walker' = ZeroWalker
    /\ invoked' = NoHistory
    /\ returned' = <<>>
    /\ early' = {}
    /\ peak' = 0
    /\ multi' = {}
    /\ UNCHANGED <<g, parallelism, cur, chErrored, chExpanded, chCompleted, queue,
                   workers, crashed>>

AllKeys == DOMAIN walker.nodes

Next ==
    \/ WalkBegin
    \/ \E key \in AllKeys : WorkerStart(key)
    \/ \E key \in AllKeys : WorkerRace(key)
    \/ \E key \in AllKeys, ok \in BOOLEAN : BodyReturns(key, ok)
    \/ \E key \in AllKeys : WorkerSend(key)
    \/ RecvErrored
    \/ RecvExpanded
    \/ ApplyExpanded
    \/ RecvCompleted
    \/ WalkReturn
    \/ WalkAgain

Spec == Init /\ [][Next]_vars

\* Every goroutine that can take a step eventually takes one: the coordinator
\* and the pool's tasks are scheduled fairly by the Go runtime.
Coordinator == WalkBegin \/ RecvErrored \/ RecvExpanded \/ ApplyExpanded \/ RecvCompleted \/ WalkReturn

Tasks ==
    \/ \E key \in AllKeys : WorkerStart(key)
    \/ \E key \in AllKeys, ok \in BOOLEAN : BodyReturns(key, ok)
    \/ \E key \in AllKeys : WorkerSend(key)

FairSpec == Spec /\ WF_vars(Coordinator) /\ WF_vars(Tasks)

-----------------------------------------------------------------------------
\* The validator (validate.go).

\* The least element of a non-empty set of indices.
Min(S) == CHOOSE i \in S : \A j \in S : i <= j

RECURSIVE dfs(_, _, _, _), dfsChildren(_, _, _, _, _)

\* dfs that looks at visited before it looks at the path.
dfsVisitedFirst(graph, current, visited, path) ==
    LET hits == {ix \in 1..Len(path) : path[ix] = current}
    IN IF current \in visited
       THEN [err |-> <<>>, visited |-> visited]
       ELSE IF hits # {}
       THEN [err |-> Append(SubSeq(path, Min(hits), Len(path)), current),
             visited |-> visited]
       ELSE dfsChildren(graph, graph.nodes[current].children, 1,
                        visited \cup {current}, Append(path, current))

\* dfs returns the cycle it found (path[ix:] and current, the keys the message
\* joins with " -> "), or <<>> for nil, and the visited map it wrote.
dfs(graph, current, visited, path) ==
    LET hits == {ix \in 1..Len(path) : path[ix] = current}
    IN IF hits # {}
       THEN [err |-> Append(SubSeq(path, Min(hits), Len(path)), current),
             visited |-> visited]
       ELSE IF current \in visited
       THEN [err |-> <<>>, visited |-> visited]
       ELSE dfsChildren(graph, graph.nodes[current].children, 1,
                        visited \cup {current}, Append(path, current))

\* for _, child := range g.nodes[current].children, from the i-th child on.
dfsChildren(graph, children, i, visited, path) ==
    IF i > Len(children)
    THEN [err |-> <<>>, visited |-> visited]
    ELSE LET r == dfs(graph, children[i], visited, path)
         IN IF r.err # <<>> THEN r
            ELSE dfsChildren(graph, children, i + 1, r.visited, path)

\* for key, node := range g.nodes, in the order the map iteration takes, from
\* the i-th key on: the first error of dfs, or <<>>.
RECURSIVE validateLoop(_, _, _, _)
validateLoop(graph, order, i, visited) ==
    IF i > Len(order)
    THEN <<>>
    ELSE LET r == dfs(graph, order[i], visited, <<>>)
         IN IF r.err # <<>> THEN r.err
            ELSE validateLoop(graph, order, i + 1, r.visited)

\* validate returns the starters, the finishers (sorted slices without
\* duplicates, held as sets), the copy of the nodes and the error.
validate(graph, order) ==
    LET err == validateLoop(graph, order, 1, {})
    IN IF err # <<>>
       THEN [starters |-> {}, finishers |-> {}, nodes |-> <<>>, err |-> err]
       ELSE [starters |-> {k \in DOMAIN graph.nodes : Len(graph.nodes[k].parents) = 0},
             finishers |-> {k \in DOMAIN graph.nodes : Len(graph.nodes[k].children) = 0},
             nodes |-> graph.nodes, err |-> <<>>]

\* The orders in which a range over a map with the keys S may visit them.
Orders(S) ==
    {o \in [1..Cardinality(S) -> S] : \A i, j \in 1..Cardinality(S) : o[i] = o[j] => i = j}

-----------------------------------------------------------------------------
\* The builder as a program: a caller makes a Graph by calls of AddNode and
\* Connect in any order, with any arguments, and validates it at any time. A
\* caller that recovers from a panic goes on with the graph as it is.

\* The impls a caller passes to AddNode for each key, up to a renaming of the
\* keys: an executable for two of the keys and an expander for the third, or
\* an impl without either method.
BuildImpls(key) ==
    IF key = <<"c">> THEN {Expandable("empty"), Neither}
    ELSE {Executable, Neither}

\* AddNode reaches its panic.
AddNodePanics(impl) == ~impl.exec /\ ~impl.expand

\* Connect reaches one of its panics.
ConnectPanics(graph, from, to) ==
    from = to \/ from \notin DOMAIN graph.nodes \/ to \notin DOMAIN graph.nodes

RECURSIVE SumLen(_, _)
SumLen(f, keys) ==
    IF keys = {} THEN 0
    ELSE LET k == CHOOSE k \in keys : TRUE
         IN Len(f[k]) + SumLen(f, keys \ {k})

\* The number of children entries, and of parents entries, in the graph.
ChildEntries(graph) == SumLen([k \in DOMAIN graph.nodes |-> graph.nodes[k].children], DOMAIN graph.nodes)
ParentEntries(graph) == SumLen([k \in DOMAIN graph.nodes |-> graph.nodes[k].parents], DOMAIN graph.nodes)

BuildInit ==
    /\ g = NewGraph
    /\ parallelism = 1
    /\ pc = "build"
    /\ walker = ZeroWalker
    /\ cur = <<>>
    /\ chErrored = <<>>
    /\ chExpanded = <<>>
    /\ chCompleted = <<>>
    /\ queue = {}
    /\ workers = <<>>
    /\ invoked = NoHistory
    /\ returned = <<>>
    /\ early = {}
    /\ peak = 0
    /\ multi = {}
    /\ crashed = FALSE

\* g.AddNode(key, impl); cur holds the kind of call and whether it panicked.
CallAddNode(key, impl) ==
    /\ pc = "build"
    /\ g' = AddNode(g, key, impl)
    /\ cur' = [op |-> "AddNode", panicked |-> AddNodePanics(impl)]
    /\ UNCHANGED <<parallelism, pc, walker, chErrored, chExpanded, chCompleted, queue,
                   workers, invoked, returned, early, peak, multi, crashed>>

\* g.Connect(from, to)
CallConnect(from, to) ==
    /\ pc = "build"
    /\ ConnectPanics(g, from, to)
          \/ (ChildEntries(g) < MaxEdges /\ ParentEntries(g) < MaxEdges)
    /\ g' = Connect(g, from, to)
    /\ cur' = [op |-> "Connect", panicked |-> ConnectPanics(g, from, to)]
    /\ UNCHANGED <<parallelism, pc, walker, chErrored, chExpanded, chCompleted, queue,
                   workers, invoked, returned, early, peak, multi, crashed>>

\* g.validate(), the range over g.nodes taking the order it takes this time.
CallValidate(order) ==
    /\ pc = "build"
    /\ cur' = [op |-> "validate", result |-> validate(g, order)]
    /\ UNCHANGED <<g, parallelism, pc, walker, chErrored, chExpanded, chCompleted, queue,
                   workers, invoked, returned, early, peak, multi, crashed>>

BuildNext ==
    \/ \E key \in TopKeys : \E impl \in BuildImpls(key) : CallAddNode(key, impl)
    \/ \E from \in TopKeys, to \in TopKeys : CallConnect(from, to)
    \/ \E order \in Orders(DOMAIN g.nodes) : CallValidate(order)

BuildSpec == BuildInit /\ [][BuildNext]_vars

-----------------------------------------------------------------------------
\* Vocabulary of the properties.

\* The keys reachable from the keys of S along children, S excluded unless on a cycle.
RECURSIVE ReachVia(_, _, _)
ReachVia(nodes, frontier, seen) ==
    LET next == UNION {Range(nodes[k].children) \cap DOMAIN nodes : k \in frontier}
    IN IF next \subseteq seen THEN seen ELSE ReachVia(nodes, next \ seen, seen \cup next)

\* No node of the graph reaches itself along edges: Validate would succeed.
Acyclic(graph) ==
    \A k \in DOMAIN graph.nodes : k \notin ReachVia(graph.nodes, {k}, {})

\* How often the body of key was invoked, Execute and Expand counted apart.
Executes(key) == Count(invoked.execute, key)
Expands(key) == Count(invoked.expand, key)
Begun(key) == Executes(key) + Expands(key) > 0

\* The expander whose Expand produced key (keys are paths).
Owner(key) == SubSeq(key, 1, Len(key) - 1)

\* The nodes spliced in below key, at any depth.
Below(key) ==
    {k \in DOMAIN walker.nodes :
        Len(k) > Len(key) /\ SubSeq(k, 1, Len(key)) = key}

-----------------------------------------------------------------------------
\* Properties of the coordinator walker.

\* Parent u is marked completed and its body has returned without error.
ParentDone(u) ==
    u \in walker.completed /\ u \in DOMAIN returned /\ returned[u] = "ok"

\* C1: dependency respect. On an acyclic graph no body begins before every
\* parent is marked completed (for an expander parent: promoted after its
\* subgraph) and every parent's body has returned without error.
DependencyRespect ==
    Acyclic(g) =>
        /\ early = {}
        /\ \A v \in DOMAIN walker.nodes :
              Begun(v) => \A u \in Range(walker.nodes[v].parents) : ParentDone(u)

\* A node with two distinct parents, one of them an expander, has begun.
DependencyRespectWitness ==
    /\ Acyclic(g)
    /\ \E v \in DOMAIN walker.nodes :
          /\ Begun(v)
          /\ Cardinality(Range(walker.nodes[v].parents)) = 2
          /\ \E u \in Range(walker.nodes[v].parents) :
                walker.nodes[u].impl.expand /\ Below(u) # {}

\* C2: at most once. No key is dispatched, executed or expanded more than once
\* during a walk of an acyclic graph.
AtMostOnce ==
    Acyclic(g) =>
        \A k \in DOMAIN walker.nodes :
            /\ Count(invoked.dispatched, k) <= 1
            /\ Executes(k) <= 1
            /\ Expands(k) <= 1

\* The walk has ended and a node reached over a duplicate edge and from a second
\* parent ran once, as did a spliced node.
AtMostOnceWitness ==
    /\ Acyclic(g)
    /\ pc = "done"
    /\ \E v \in DOMAIN walker.nodes :
          /\ Len(walker.nodes[v].parents) = 2
          /\ Executes(v) + Expands(v) = 1
    /\ \E k \in DOMAIN walker.nodes : Len(k) > 1 /\ Executes(k) = 1

\* C3: parallelism bound. Never more than opts.Parallelism bodies in flight.
ParallelismBound ==
    /\ Cardinality(InFlight(workers)) <= parallelism
    /\ peak <= parallelism

\* Two bodies are in flight with parallelism 2 while a third task waits.
ParallelismBoundWitness ==
    /\ parallelism = 2
    /\ Cardinality(InFlight(workers)) = 2
    /\ queue # {}

\* C4: termination. On an acyclic graph whose bodies all return, the walk
\* eventually returns.
Termination == Acyclic(g) => <>(pc = "done")

\* The children of key in the flattened graph: its own children and, when key
\* is a finisher of a spliced subgraph, those of the expander above it.
RECURSIVE FlatChildren(_)
FlatChildren(key) ==
    Range(walker.nodes[key].children)
        \cup (IF key \in DOMAIN walker.subgraphFinishers
              THEN FlatChildren(walker.subgraphFinishers[key])
              ELSE {})

RECURSIVE FlatReach(_, _)
FlatReach(frontier, seen) ==
    LET next == UNION {FlatChildren(k) : k \in frontier}
    IN IF next \subseteq seen THEN seen ELSE FlatReach(next \ seen, seen \cup next)

\* The transitive descendants of key.
Descendants(key) == FlatReach({key}, {})

\* The keys whose body has returned an error.
Failed == {k \in DOMAIN returned : returned[k] = "err"}

\* C5: pruning. No transitive descendant of a node whose body returned an
\* error is ever pending, dispatched, invoked, completed or errored.
ErrorPrunesDescendants ==
    \A K \in Failed :
        \A d \in Descendants(K) :
            /\ d \notin walker.pending \cup walker.processing
            /\ d \notin walker.completed \cup DOMAIN walker.errored
            /\ Count(invoked.dispatched, d) = 0
            /\ ~Begun(d)

\* The walk has ended, a node with a child failed, and so did a node of a
\* spliced subgraph whose expander has a child.
ErrorPrunesDescendantsWitness ==
    /\ pc = "done"
    /\ \E K \in Failed : Len(K) = 1 /\ walker.nodes[K].children # <<>>
    /\ \E K \in Failed : Len(K) > 1 /\ Descendants(K) # {}

\* The keys from which key is reached along edges of walker.nodes.
GraphAncestors(key) ==
    {u \in DOMAIN walker.nodes : key \in ReachVia(walker.nodes, {u}, {})}

\* The body of key ran exactly once: Execute for an executable, Expand for an
\* expander (for an impl with both, Execute once and Expand at most once).
RanOnce(key) ==
    LET impl == walker.nodes[key].impl
    IN /\ Executes(key) = (IF impl.exec THEN 1 ELSE 0)
       /\ Expands(key) <= 1
       /\ ~impl.exec => Expands(key) = 1
       /\ ~impl.expand => Expands(key) = 0

Settled(key) == key \in walker.completed \cup DOMAIN walker.errored

\* The top-level node a spliced key descends from.
Top(key) == SubSeq(key, 1, 1)

\* The claim C6 as stated, with the ancestors of a node taken along the edges
\* of the graph it belongs to (and, for a spliced node, those of the expanders
\* above it): when Walk returns, every node without an errored ancestor ran
\* once and is completed or errored.
IsolationAsStated ==
    (pc = "done" /\ Acyclic(g)) =>
        \A v \in DOMAIN walker.nodes :
            (\A u \in GraphAncestors(v) \cup GraphAncestors(Top(v)) :
                u \notin DOMAIN walker.errored)
            => RanOnce(v) /\ Settled(v)

\* The ancestors of key when the nodes of a subgraph stand between their
\* expander and the expander's children: parents, the expander above, and the
\* nodes below a parent.
FlatParents(key) ==
    LET ps == Range(walker.nodes[key].parents)
    IN ps \cup UNION {Below(p) : p \in ps}
          \cup (IF Len(key) > 1 THEN {Owner(key)} ELSE {})

RECURSIVE FlatAncestorsOf(_, _)
FlatAncestorsOf(frontier, seen) ==
    LET next == UNION {FlatParents(k) : k \in frontier}
    IN IF next \subseteq seen THEN seen ELSE FlatAncestorsOf(next \ seen, seen \cup next)

FlatAncestors(key) == FlatAncestorsOf({key}, {})

\* C6, amended: when Walk returns on an acyclic graph, every node none of whose
\* ancestors errored (the nodes of an expander's subgraph counting as ancestors
\* of the expander's children) ran exactly once, and it is completed or errored
\* unless it is an expander with an errored node below it, which stays in
\* neither set; without any error every node is completed and Walk returns nil.
Isolation ==
    (pc = "done" /\ Acyclic(g)) =>
        /\ \A v \in DOMAIN walker.nodes :
              (\A u \in FlatAncestors(v) : u \notin DOMAIN walker.errored)
              => /\ RanOnce(v)
                 /\ Settled(v) <=> (\A d \in Below(v) : d \notin DOMAIN walker.errored)
        /\ DOMAIN walker.errored = {} =>
              walker.completed = DOMAIN walker.nodes /\ multi = {}

\* Walk returned with a failed node whose child did not run, an unrelated
\* branch that ran, and an expander left unsettled by an error below it.
IsolationWitness ==
    /\ pc = "done"
    /\ Acyclic(g)
    /\ \E K \in DOMAIN walker.errored :
          /\ walker.nodes[K].children # <<>>
          /\ \E v \in DOMAIN walker.nodes :
                v \notin Descendants(K) /\ v # K /\ v \in walker.completed
    /\ \E e \in DOMAIN walker.nodes :
          /\ RanOnce(e)
          /\ ~Settled(e)
          /\ \A u \in FlatAncestors(e) : u \notin DOMAIN walker.errored

\* C7: the returned error holds the error of every key in walker.errored.
AllErrorsReported ==
    pc = "done" => \A k \in DOMAIN walker.errored : walker.errored[k] \in multi

\* C8: on an acyclic graph the walk ends with every node completed or errored
\* and the returned error has no incomplete_graph member.
NeverIncomplete ==
    (pc = "done" /\ Acyclic(g)) =>
        /\ Cardinality(walker.completed) + Cardinality(DOMAIN walker.errored)
              = Cardinality(DOMAIN walker.nodes)
        /\ \A e \in multi : e.code # "graph.incomplete_graph"

\* C9: on a graph with a cycle no body is invoked and Walk returns the cycle
\* error.
NoExecutionOnCycle ==
    ~Acyclic(g) =>
        /\ \A k \in DOMAIN walker.nodes : ~Begun(k)
        /\ pc = "done" => \E e \in multi : e.code = "cycle"

\* C10: no step of a walk, nor of a second walk, changes the caller's Graph.
GraphUnchanged == [][g' = g]_vars

\* A walk has ended after subgraphs were spliced into the walker's node map.
GraphUnchangedWitness ==
    /\ pc = "done"
    /\ DOMAIN walker.nodes # DOMAIN g.nodes
    /\ \E k \in DOMAIN walker.nodes : Len(k) = 3

-----------------------------------------------------------------------------
\* Expansion: the walk of a graph with expanders against the flattened graph.

\* The nodes that stand for p as a predecessor in the flattened graph: p itself
\* when it is not an expander (or is one whose subgraph is not spliced in yet),
\* otherwise the finishers of its subgraph, and for an empty subgraph the
\* predecessors of p.
RECURSIVE FlatSources(_), FlatPreds(_)
FlatSources(p) ==
    IF ~walker.nodes[p].impl.expand \/ p \notin DOMAIN walker.subgraphStarters
    THEN {p}
    ELSE IF walker.subgraphStarters[p] = {}
    THEN FlatPreds(p)
    ELSE UNION {FlatSources(f) : f \in walker.subgraphStarters[p]}

\* The immediate predecessors of v in the flattened graph: what stands for its
\* parents and, for a starter of a subgraph, the predecessors of its expander.
FlatPreds(v) ==
    UNION {FlatSources(p) : p \in Range(walker.nodes[v].parents)}
        \cup (IF Len(v) > 1 /\ walker.nodes[v].parents = <<>>
              THEN FlatPreds(Owner(v))
              ELSE {})

RECURSIVE FlatBeforeOf(_, _)
FlatBeforeOf(frontier, seen) ==
    LET next == UNION {FlatPreds(k) : k \in frontier}
    IN IF next \subseteq seen THEN seen ELSE FlatBeforeOf(next \ seen, seen \cup next)

\* Every node before v in the flattened graph.
FlatBefore(v) == FlatBeforeOf({v}, {})

ReturnedOk(u) == u \in DOMAIN returned /\ returned[u] = "ok"

\* The nodes of the flattened graph: those that are not expanders.
Plain(v) == ~walker.nodes[v].impl.expand

\* C11: expansion transparency. On an acyclic graph the Execute bodies run and
\* their order are those of a walk of the flattened graph: a plain node begins
\* only after every flattened predecessor is a plain node whose body returned
\* without error, and when Walk returns a plain node has run exactly when every
\* node before it in the flattened graph returned without error.
ExpansionTransparency ==
    Acyclic(g) =>
        /\ \A v \in DOMAIN walker.nodes :
              (Plain(v) /\ Begun(v)) =>
                  \A u \in FlatPreds(v) : Plain(u) /\ ReturnedOk(u)
        /\ pc = "done" =>
              \A v \in DOMAIN walker.nodes :
                  Plain(v) =>
                      (Executes(v) = 1 <=> \A u \in FlatBefore(v) : ReturnedOk(u))

\* Walk returned after an expander with a parent and a child spliced in a
\* subgraph, nested or with two finishers, and the child ran after all of it.
ExpansionTransparencyWitness ==
    /\ pc = "done"
    /\ Acyclic(g)
    /\ \E E \in DOMAIN walker.nodes :
          /\ walker.nodes[E].impl.expand
          /\ walker.nodes[E].parents # <<>>
          /\ Cardinality(Below(E)) >= 2
          /\ \E c \in Range(walker.nodes[E].children) :
                /\ Executes(c) = 1
                /\ Below(E) \cap FlatBefore(c) # {}
                /\ Range(walker.nodes[E].parents) \subseteq FlatBefore(c)

\* C12: expander promotion. An expander is marked completed only after every
\* finisher, and so every node, of its spliced subgraph is completed, at any
\* depth of nesting; no child of it begins before that; and once its subgraph
\* is completed it is completed itself and each child whose parents are all
\* completed is handed to the pool, and has run when Walk returns.
ExpanderPromotion ==
    Acyclic(g) =>
        \A K \in DOMAIN walker.nodes :
            walker.nodes[K].impl.expand =>
                /\ K \in walker.completed =>
                      /\ K \in DOMAIN walker.subgraphStarters
                      /\ walker.subgraphStarters[K] \subseteq walker.completed
                      /\ Below(K) \subseteq walker.completed
                /\ \A c \in Range(walker.nodes[K].children) :
                      /\ Begun(c) => K \in walker.completed
                      /\ (/\ K \in DOMAIN walker.subgraphStarters
                          /\ Below(K) \subseteq walker.completed
                          /\ Range(walker.nodes[c].parents) \subseteq walker.completed)
                         => /\ Count(invoked.dispatched, c) = 1
                            /\ pc = "done" => Begun(c)
                /\ (K \in DOMAIN walker.subgraphStarters /\ Below(K) \subseteq walker.completed)
                      => K \in walker.completed

\* Walk returned on a -> b -> c with b expanding to an expander that expands to
\* a chain: c ran, after the three nodes below b.
ExpanderPromotionWitness ==
    /\ pc = "done"
    /\ Acyclic(g)
    /\ \E K \in DOMAIN walker.nodes :
          /\ walker.nodes[K].impl.expand
          /\ walker.nodes[K].parents # <<>>
          /\ Cardinality(Below(K)) = 3
          /\ \E n \in Below(K) : walker.nodes[n].impl.expand /\ n \in walker.completed
          /\ \E c \in Range(walker.nodes[K].children) : Executes(c) = 1

-----------------------------------------------------------------------------
\* Properties of the validator and the builder.

\* The last call was validate.
Validated == DOMAIN cur # {} /\ cur.op = "validate"

\* path is a cycle of the graph: it ends at the key it begins with and every
\* consecutive pair of its keys is an edge.
IsCyclePath(graph, path) ==
    /\ Len(path) >= 2
    /\ path[1] = path[Len(path)]
    /\ \A i \in 1..(Len(path) - 1) :
          /\ path[i] \in DOMAIN graph.nodes
          /\ path[i + 1] \in Range(graph.nodes[path[i]].children)

ValidateDeterministic ==
    Validated =>
        \A order \in Orders(DOMAIN g.nodes) : validate(g, order).err = cur.result.err

\* C15: starters is exactly the set of keys without parents and finishers the
\* set of keys without children, after any calls of AddNode and Connect.
StartersFinishersExact ==
    /\ g.starters = {k \in DOMAIN g.nodes : g.nodes[k].parents = <<>>}
    /\ g.finishers = {k \in DOMAIN g.nodes : g.nodes[k].children = <<>>}

\* A Connect succeeded on a graph in which AddNode had replaced a node that had
\* a parent: the parent still lists it as a child.
StartersFinishersExactWitness ==
    /\ DOMAIN cur # {}
    /\ cur.op = "Connect"
    /\ ~cur.panicked
    /\ \E a \in DOMAIN g.nodes, b \in DOMAIN g.nodes :
          /\ b \in Range(g.nodes[a].children)
          /\ a \notin Range(g.nodes[b].parents)
    /\ g.starters # {} /\ g.finishers # {} /\ g.starters # g.finishers

\* b is a child of a exactly when a is a parent of b.
EdgeSymmetric(graph) ==
    \A a \in DOMAIN graph.nodes, b \in DOMAIN graph.nodes :
        b \in Range(graph.nodes[a].children) <=> a \in Range(graph.nodes[b].parents)

Overwrites ==
    \E key \in DOMAIN g.nodes : \E impl \in BuildImpls(key) :
        ~AddNodePanics(impl) /\ CallAddNode(key, impl)

PanicLeavesGraph ==
    [][/\ \A from \in TopKeys, to \in TopKeys :
             (/\ (from = to \/ from \notin DOMAIN g.nodes \/ to \notin DOMAIN g.nodes)
              /\ CallConnect(from, to))
             => (cur'.panicked /\ g' = g)
       /\ \A key \in TopKeys :
             CallAddNode(key, Neither) => (cur'.panicked /\ g' = g)]_vars

\* A Connect panicked on a graph that has an edge and a key still missing.
PanicLeavesGraphWitness ==
    /\ DOMAIN cur # {}
    /\ cur.op = "Connect"
    /\ cur.panicked
    /\ ChildEntries(g) >= 1
    /\ DOMAIN g.nodes # TopKeys

-----------------------------------------------------------------------------
\* Determinism, order and the processing set of the coordinator walker.

\* The outcome of the body of key: the one it returned, and for a body that
\* never ran one that does not matter.
Outcome(key) == IF key \in DOMAIN returned THEN returned[key] ELSE "ok"

\* In the reference run, key has run without error and, for an expander, so
\* has every finisher of the subgraph it returned.
RECURSIVE RefPassed(_, _, _)
RefPassed(nodes, ran, key) ==
    /\ key \in ran
    /\ Outcome(key) = "ok"
    /\ nodes[key].impl.expand =>
          \A f \in Finishers(ExpandResult(key, nodes[key].impl.sub)) :
              RefPassed(nodes, ran, f)

\* nodes with the subgraphs of the expanders among keys that return one.
RECURSIVE RefSplice(_, _)
RefSplice(nodes, keys) ==
    IF keys = {} THEN nodes
    ELSE LET k == CHOOSE k \in keys : TRUE
             rest == RefSplice(nodes, keys \ {k})
         IN IF nodes[k].impl.expand /\ Outcome(k) = "ok"
            THEN ExpandResult(k, nodes[k].impl.sub).nodes @@ rest
            ELSE rest

\* The reference run: a walk in rounds that has no workers, no channels and no
\* map iteration. Each round runs every node that has not run and whose
\* parents have all passed; it ends when a round runs nothing. The result is
\* the set of nodes that ran: a function of the graph and the outcomes alone.
RECURSIVE RefRun(_, _)
RefRun(nodes, ran) ==
    LET ready == {k \in DOMAIN nodes \ ran :
                     \A p \in Range(nodes[k].parents) : RefPassed(nodes, ran, p)}
    IN IF ready = {} THEN ran
       ELSE RefRun(RefSplice(nodes, ready), ran \cup ready)

\* The nodes whose body was invoked in this walk.
ExecutedSet == {k \in DOMAIN walker.nodes : Begun(k)}

\* C18: the set of nodes executed is deterministic. Whatever the interleaving
\* and the parallelism, when Walk returns the nodes whose body ran are those of
\* the reference run on the same graph with the same outcomes.
ExecutedSetDeterministic ==
    pc = "done" => ExecutedSet = RefRun(g.nodes, {})

\* Walk returned with parallelism 2 after two bodies had been in flight at
\* once, a body failed, a node was pruned and a spliced node ran.
ExecutedSetDeterministicWitness ==
    /\ pc = "done"
    /\ parallelism = 2
    /\ peak = 2
    /\ Failed # {}
    /\ \E k \in DOMAIN walker.nodes : ~Begun(k)
    /\ \E k \in DOMAIN walker.nodes : Len(k) > 1 /\ Begun(k)

\* C19: with parallelism 1 the children made ready by one completion run in
\* their order in the parent's children sequence: a later child has not begun
\* while an earlier one has not.
InsertionOrder ==
    parallelism = 1 =>
        \A a \in DOMAIN walker.nodes :
            LET children == walker.nodes[a].children
            IN \A i \in 1..Len(children), j \in 1..Len(children) :
                   (/\ i < j
                    /\ walker.nodes[children[i]].parents = <<a>>
                    /\ walker.nodes[children[j]].parents = <<a>>
                    /\ Begun(children[j]))
                   => Begun(children[i])

\* C20: the processing set never holds more than opts.Parallelism keys.
ProcessingBound == Cardinality(walker.processing) <= parallelism

-----------------------------------------------------------------------------
\* The end of the walk, empty expansions and the walker's sets.

\* C21: Walk does not end while a worker holds a key. When the loop finds the
\* walker empty, and when Walk has returned, no task waits in the pool, no
\* body runs, no task is about to send and no outcome is left in a channel.
NoEarlyTermination ==
    ((pc = "loop" /\ walker.pending = {} /\ walker.processing = {}) \/ pc = "done") =>
        /\ queue = {}
        /\ DOMAIN workers = {}
        /\ chErrored = <<>> /\ chExpanded = <<>> /\ chCompleted = <<>>

\* Walk returned with parallelism 2 after two bodies had been in flight at once
\* and three nodes had completed, the last one without a child to enqueue.
NoEarlyTerminationWitness ==
    /\ pc = "done"
    /\ parallelism = 2
    /\ peak = 2
    /\ Cardinality(walker.completed) >= 3
    /\ \E k \in walker.completed : walker.nodes[k].children = <<>>

\* The children of key whose parents are all in done.
ReadyChildren(key, done) ==
    {c \in Range(walker.nodes[key].children) : Range(walker.nodes[c].parents) \subseteq done}

\* C22: an Expand that returns a graph without nodes completes its node in the
\* same coordinator step: the node is completed, its children whose parents
\* are all completed are dispatched, and when it was the last finisher of an
\* enclosing subgraph the enclosing expander is completed and its children are
\* dispatched too.
EmptyExpansionCompletes ==
    [][(/\ pc = "expand"
        /\ pc' = "loop"
        /\ Acyclic(g)
        /\ DOMAIN cur.subgraph.nodes = {})
       => LET K == cur.key
              done == walker'.completed
          IN /\ K \in done
             /\ K \notin walker'.processing
             /\ ReadyChildren(K, done) \subseteq (queue' \cap walker'.processing)
             /\ K \in DOMAIN walker.subgraphFinishers =>
                   LET S == walker.subgraphFinishers[K]
                   IN walker.subgraphStarters[S] \subseteq done =>
                         /\ S \in done
                         /\ ReadyChildren(S, done) \subseteq (queue' \cap walker'.processing)]_vars

\* An expander spliced in by another expander returned a graph without nodes,
\* the enclosing expander was completed and a child of it has run.
EmptyExpansionCompletesWitness ==
    /\ Acyclic(g)
    /\ \E K \in DOMAIN walker.subgraphStarters :
          /\ Len(K) > 1
          /\ walker.subgraphStarters[K] = {}
          /\ K \in walker.completed
          /\ Owner(K) \in walker.completed
          /\ \E c \in Range(walker.nodes[Owner(K)].children) : Begun(c)

\* C24: for an impl with both methods the worker calls Execute only.
ExecutablePrecedence ==
    \A k \in DOMAIN walker.nodes :
        (walker.nodes[k].impl.exec /\ walker.nodes[k].impl.expand) =>
            /\ Expands(k) = 0
            /\ ReturnedOk(k) => k \notin DOMAIN walker.subgraphStarters

PairwiseDisjoint(w) ==
    /\ w.pending \cap w.processing = {}
    /\ w.pending \cap w.completed = {}
    /\ w.pending \cap DOMAIN w.errored = {}
    /\ w.processing \cap w.completed = {}
    /\ w.processing \cap DOMAIN w.errored = {}
    /\ w.completed \cap DOMAIN w.errored = {}

\* The keys a step moves through pending: those it hands to the pool.
MadePending ==
    {k \in DOMAIN walker'.nodes :
        Count(invoked'.dispatched, k) > Count(invoked.dispatched, k)}

\* C29: on an acyclic graph pending, processing, completed and the keys of
\* errored are pairwise disjoint, the keys a step makes pending are in none of
\* the other sets, and during a walk no key leaves completed or errored.
WalkerSetsDisjoint ==
    /\ [](Acyclic(g) => PairwiseDisjoint(walker))
    /\ [][(Acyclic(g) /\ pc \in {"loop", "expand"}) =>
             /\ walker.completed \subseteq walker'.completed
             /\ DOMAIN walker.errored \subseteq DOMAIN walker'.errored
             /\ MadePending \cap walker.processing = {}
             /\ MadePending \cap walker'.completed = {}
             /\ MadePending \cap DOMAIN walker'.errored = {}]_vars

\* Keys are in processing, in completed and in errored at the same time.
WalkerSetsDisjointWitness ==
    /\ Acyclic(g)
    /\ Cardinality(walker.processing) >= 2
    /\ walker.completed # {}
    /\ DOMAIN walker.errored # {}

\* C30: no send after close. Outcomes are sent only while the coordinator is
\* in its loop, and when Walk has closed the channels every dispatched key has
\* run, its body has returned and no task of it is left to send.
NoSendAfterClose ==
    /\ [](pc = "done" =>
             \A k \in DOMAIN walker.nodes :
                 Count(invoked.dispatched, k) > 0 =>
                     /\ k \notin queue
                     /\ k \notin DOMAIN workers
                     /\ k \in DOMAIN returned)
    /\ [][(\/ Len(chErrored') > Len(chErrored)
           \/ Len(chExpanded') > Len(chExpanded)
           \/ Len(chCompleted') > Len(chCompleted))
          => pc \in {"loop", "expand"}]_vars

\* Walk returned with parallelism 2 after outcomes of all three kinds.
NoSendAfterCloseWitness ==
    /\ pc = "done"
    /\ parallelism = 2
    /\ DOMAIN walker.errored # {}
    /\ DOMAIN walker.subgraphStarters # {}
    /\ \E k \in walker.completed : Plain(k)

NoRepeat(seq) == \A i, j \in 1..Len(seq) : seq[i] = seq[j] => i = j

\* C25: no parents sequence and no children sequence holds a key twice,
\* whatever Connect calls were made.
NoDuplicateEdges ==
    \A k \in DOMAIN g.nodes :
        NoRepeat(g.nodes[k].parents) /\ NoRepeat(g.nodes[k].children)

-----------------------------------------------------------------------------
\* Expanders that return a graph with a cycle.

\* The cyclic graphs an Expand body returns: x -> y -> x, and s -> x -> y -> x.
CyclicShapes == {"loop", "lasso"}

\* An executable a and an expander b that returns a cyclic graph, unconnected
\* or connected either way.
RevalidateGraphs ==
    UNION {{graph,
            Connect(graph, <<"a">>, <<"b">>),
            Connect(graph, <<"b">>, <<"a">>)} :
           graph \in {AddNode(AddNode(NewGraph, <<"a">>, Executable),
                              <<"b">>, Expandable(sub)) : sub \in CyclicShapes}}

RevalidateInit ==
    /\ g \in RevalidateGraphs
    /\ parallelism \in 1..MaxP
    /\ pc = "idle"
    /\ walker = ZeroWalker
    /\ cur = <<>>
    /\ chErrored = <<>>
    /\ chExpanded = <<>>
    /\ chCompleted = <<>>
    /\ queue = {}
    /\ workers = <<>>
    /\ invoked = NoHistory
    /\ returned = <<>>
    /\ early = {}
    /\ peak = 0
    /\ multi = {}
    /\ crashed = FALSE

RevalidateSpec == RevalidateInit /\ [][Next]_vars

\* C23: a subgraph returned by Expand is validated before it is integrated.
\* When it has a cycle none of its nodes is in walker.nodes, none of its
\* bodies runs, and once the outcome is applied the expander is in errored.
SubgraphRevalidated ==
    \A K \in DOMAIN walker.nodes :
        LET impl == walker.nodes[K].impl
        IN (impl.expand /\ ~Acyclic(ExpandResult(K, impl.sub))) =>
              /\ Below(K) = {}
              /\ \A k \in DOMAIN ExpandResult(K, impl.sub).nodes : ~Begun(k)
              /\ (ReturnedOk(K) /\ K \notin walker.processing) =>
                     K \in DOMAIN walker.errored

-----------------------------------------------------------------------------
\* The serial walk: Graph.Walk(ctx) of graph.go, one goroutine and a fringe
\* used as a queue.

\* The order of the Go strings the keys stand for.
LetterRank(s) ==
    CASE s = "a" -> 1 [] s = "b" -> 2 [] s = "c" -> 3 [] s = "n" -> 4
      [] s = "s" -> 5 [] s = "x" -> 6 [] OTHER -> 7

RECURSIVE KeyLess(_, _)
KeyLess(k1, k2) ==
    IF k1 = <<>> THEN k2 # <<>>
    ELSE IF k2 = <<>> THEN FALSE
    ELSE IF Head(k1) = Head(k2) THEN KeyLess(Tail(k1), Tail(k2))
    ELSE LetterRank(Head(k1)) < LetterRank(Head(k2))

\* sort.SliceStable(starters, ...): the keys of S in ascending order.
Sorted(S) ==
    CHOOSE o \in Orders(S) : \A i, j \in 1..Cardinality(S) : i < j => KeyLess(o[i], o[j])

\* The locals of Walk before validate has run.
SerialZero ==
    [nodes |-> <<>>, fringe |-> <<>>, complete |-> {}, errored |-> <<>>,
     subgraphStarters |-> <<>>, subgraphFinishers |-> <<>>]

SerialError(what, key, err) == [msg |-> what, key |-> key, err |-> err]

\* The inputs of the serial walk: those of the coordinator walker, the graphs
\* whose expander returns a cyclic graph, and the graph without nodes.
SerialGraphs == InputGraphs \cup RevalidateGraphs \cup {NewGraph}

SerialInit ==
    /\ g \in SerialGraphs
    /\ parallelism = 1
    /\ pc = "idle"
    /\ walker = SerialZero
    /\ cur = <<>>
    /\ chErrored = <<>>
    /\ chExpanded = <<>>
    /\ chCompleted = <<>>
    /\ queue = {}
    /\ workers = <<>>
    /\ invoked = NoHistory
    /\ returned = <<>>
    /\ early = {}
    /\ peak = 0
    /\ multi = {}
    /\ crashed = FALSE

\* Walk up to its loop: an empty graph returns nil, a graph that does not
\* validate returns the error, otherwise the sorted starters are the fringe.
SerialBegin ==
    /\ pc = "idle"
    /\ IF DOMAIN g.nodes = {}
       THEN /\ pc' = "done"
            /\ multi' = {}
            /\ UNCHANGED walker
       ELSE \E order \in Orders(DOMAIN g.nodes) :
               LET v == validate(g, order)
               IN IF v.err # <<>>
                  THEN /\ pc' = "done"
                       /\ multi' = {SerialError("failed to validate graph", <<>>, v.err)}
                       /\ UNCHANGED walker
                  ELSE /\ pc' = "loop"
                       /\ walker' = [SerialZero EXCEPT !.nodes = v.nodes,
                                                       !.fringe = Sorted(v.starters)]
                       /\ UNCHANGED multi
    /\ UNCHANGED <<g, parallelism, cur, chErrored, chExpanded, chCompleted, queue, workers,
                   invoked, returned, early, peak, crashed>>

\* The tail of one iteration for a node that is complete: the finisher check,
\* one level up, and the children whose parents are all complete.
SerialComplete(w, key) ==
    LET w1 == [w EXCEPT !.complete = @ \cup {key}]
        isFinisher == key \in DOMAIN w1.subgraphFinishers
        starter == w1.subgraphFinishers[key]
        starterComplete ==
            /\ isFinisher
            /\ starter \in DOMAIN w1.subgraphStarters =>
                   w1.subgraphStarters[starter] \subseteq w1.complete
        w2 == IF starterComplete THEN [w1 EXCEPT !.complete = @ \cup {starter}] ELSE w1
        children == IF starterComplete THEN w2.nodes[starter].children
                    ELSE w2.nodes[key].children
    IN [w2 EXCEPT !.fringe = @ \o SelectSeq(children,
                      LAMBDA next : Range(w2.nodes[next].parents) \subseteq w2.complete)]

\* One iteration of 'for len(fringe) > 0': the head of the fringe is taken, its
\* body or bodies are called, and the outcome is applied.
SerialIterate(okExecute, okExpand) ==
    /\ pc = "loop"
    /\ walker.fringe # <<>>
    /\ LET key == Head(walker.fringe)
           w0 == [walker EXCEPT !.fringe = Tail(@)]
           impl == w0.nodes[key].impl
           executeFails == impl.exec /\ ~okExecute
           expandCalled == impl.expand /\ ~executeFails
           expandFails == expandCalled /\ ~okExpand
           subgraph == ExpandResult(key, impl.sub)
       IN /\ invoked' = [invoked EXCEPT
                            !.execute = IF impl.exec THEN Incr(@, {key}) ELSE @,
                            !.expand = IF expandCalled THEN Incr(@, {key}) ELSE @]
          /\ returned' = Put(returned, key,
                             IF executeFails \/ expandFails THEN "err" ELSE "ok")
          /\ IF executeFails
             THEN walker' = [w0 EXCEPT !.errored =
                                Put(@, key, SerialError("failed to execute node", key, <<>>))]
             ELSE IF expandFails
             THEN walker' = [w0 EXCEPT !.errored =
                                Put(@, key, SerialError("failed to expand node", key, <<>>))]
             ELSE IF expandCalled /\ DOMAIN subgraph.nodes # {}
             THEN \E order \in Orders(DOMAIN subgraph.nodes) :
                     LET v == validate(subgraph, order)
                     IN walker' =
                           IF v.err # <<>>
                           THEN [w0 EXCEPT !.errored =
                                    Put(@, key, SerialError("failed to validate subgraph",
                                                            key, v.err))]
                           ELSE [w0 EXCEPT
                                    !.nodes = v.nodes @@ @,
                                    !.subgraphStarters = Put(@, key, v.finishers),
                                    !.fringe = @ \o Sorted(v.starters),
                                    !.subgraphFinishers = [f \in v.finishers |-> key] @@ @]
             ELSE walker' = SerialComplete(w0, key)
    /\ UNCHANGED <<g, parallelism, pc, cur, chErrored, chExpanded, chCompleted, queue,
                   workers, early, peak, multi, crashed>>

\* The fringe is empty: the errors are appended and returned.
SerialReturn ==
    /\ pc = "loop"
    /\ walker.fringe = <<>>
    /\ multi' = {walker.errored[k] : k \in DOMAIN walker.errored}
    /\ pc' = "done"
    /\ UNCHANGED <<g, parallelism, walker, cur, chErrored, chExpanded, chCompleted, queue,
                   workers, invoked, returned, early, peak, crashed>>

SerialNext ==
    \/ SerialBegin
    \/ \E okExecute \in BOOLEAN, okExpand \in BOOLEAN : SerialIterate(okExecute, okExpand)
    \/ SerialReturn

SerialSpec == SerialInit /\ [][SerialNext]_vars

\* C28: in the serial walk an expander is complete as soon as every finisher
\* of its subgraph is, at any depth of nesting, and each of its children whose
\* parents are all complete has run or waits in the fringe.
SerialPromotesRecursively ==
    \A K \in DOMAIN walker.subgraphStarters :
        walker.subgraphStarters[K] \subseteq walker.complete =>
            /\ K \in walker.complete
            /\ \A c \in Range(walker.nodes[K].children) :
                  Range(walker.nodes[c].parents) \subseteq walker.complete =>
                      Begun(c) \/ c \in Range(walker.fringe)

-----------------------------------------------------------------------------
\* The mutex walker: Graph.WalkP of walk.go. parallelism worker goroutines
\* range over the channel fringe and report through three callbacks that take
\* the mutex; the main goroutine seeds the fringe and waits for the workers.
\* walker holds the maps the callbacks close over, cur the other locals of
\* WalkP, workers the position of each worker goroutine.

WalkPZero ==
    [nodes |-> <<>>, pending |-> {}, complete |-> {}, errored |-> <<>>,
     subgraphStarters |-> <<>>, subgraphFinishers |-> <<>>]

NoCall == [kind |-> "none", err |-> <<>>, starters |-> <<>>, finishers |-> {}, nodes |-> <<>>]

IdleWorker == [state |-> "idle", key |-> <<>>, call |-> NoCall, todo |-> <<>>, after |-> "none"]

\* The impls tried for each top-level key, up to a renaming of the keys.
WalkPImpls(key) ==
    CASE key = <<"a">> -> {Executable}
      [] key = <<"b">> -> {Executable, Expandable("empty"), Expandable("chain"),
                           Expandable("loop")}
      [] OTHER         -> {Executable, Neither}

WalkPGraphs ==
    {graph \in InputGraphs \cup RevalidateGraphs :
        \A k \in DOMAIN graph.nodes : graph.nodes[k].impl \in WalkPImpls(k)}
    \cup {NewGraph}

WalkPInit ==
    /\ g \in WalkPGraphs
    /\ parallelism \in 1..MaxP
    /\ pc = "idle"
    /\ walker = WalkPZero
    /\ cur = <<>>
    /\ chErrored = <<>>
    /\ chExpanded = <<>>
    /\ chCompleted = <<>>
    /\ queue = {}
    /\ workers = <<>>
    /\ invoked = NoHistory
    /\ returned = <<>>
    /\ early = {}
    /\ peak = 0
    /\ multi = {}
    /\ crashed = FALSE

WalkPIdle == <<chErrored, chExpanded, chCompleted, queue, early, peak>>

\* WalkP up to the start of the workers: an empty graph returns nil, a graph
\* that does not validate returns the error; otherwise the starters are
\* pending, the fringe has capacity parallelism and the workers are started.
WalkPBegin ==
    /\ pc = "idle"
    /\ IF DOMAIN g.nodes = {}
       THEN /\ pc' = "done"
            /\ multi' = {}
            /\ UNCHANGED <<walker, cur, workers>>
       ELSE \E order \in Orders(DOMAIN g.nodes) :
               LET v == validate(g, order)
               IN IF v.err # <<>>
                  THEN /\ pc' = "done"
                       /\ multi' = {SerialError("failed to validate graph", <<>>, v.err)}
                       /\ UNCHANGED <<walker, cur, workers>>
                  ELSE /\ pc' = "seed"
                       /\ walker' = [WalkPZero EXCEPT !.nodes = v.nodes,
                                                      !.pending = v.starters]
                       /\ cur' = [fringe |-> <<>>, closed |-> FALSE, mutex |-> 0,
                                  wg |-> parallelism, seed |-> v.starters, seen |-> {}]
                       /\ workers' = [i \in 1..parallelism |-> IdleWorker]
                       /\ UNCHANGED multi
    /\ UNCHANGED <<g, parallelism, invoked, returned, crashed>>
    /\ UNCHANGED WalkPIdle

\* for key := range pending { fringe <- key }, run by the main goroutine
\* without the mutex: one send. The range sees the map as it is now; the send
\* waits while the buffer is full and panics when the channel is closed.
MainSend(key) ==
    /\ ~crashed
    /\ pc = "seed"
    /\ key \in walker.pending \ cur.seen
    /\ IF cur.closed
       THEN /\ crashed' = TRUE
            /\ UNCHANGED cur
       ELSE /\ Len(cur.fringe) < parallelism
            /\ cur' = [cur EXCEPT !.fringe = Append(@, key), !.seen = @ \cup {key}]
            /\ UNCHANGED crashed
    /\ UNCHANGED <<g, parallelism, pc, walker, workers, invoked, returned, multi>>
    /\ UNCHANGED WalkPIdle

\* The range ends: every key that was in the map when it began and is still
\* there has been visited.
MainSeedDone ==
    /\ ~crashed
    /\ pc = "seed"
    /\ (cur.seed \cap walker.pending) \subseteq cur.seen
    /\ pc' = "wait"
    /\ UNCHANGED <<g, parallelism, walker, cur, workers, invoked, returned, multi, crashed>>
    /\ UNCHANGED WalkPIdle

\* wg.Wait() returns once every worker has returned; the errors are appended.
MainReturn ==
    /\ ~crashed
    /\ pc = "wait"
    /\ cur.wg = 0
    /\ multi' = {walker.errored[k] : k \in DOMAIN walker.errored}
    /\ pc' = "done"
    /\ UNCHANGED <<g, parallelism, walker, cur, workers, invoked, returned, crashed>>
    /\ UNCHANGED WalkPIdle

\* for key := range pending (the fringe): a worker receives a key.
Take(i) ==
    /\ ~crashed
    /\ pc \in {"seed", "wait"}
    /\ workers[i].state = "idle"
    /\ cur.fringe # <<>>
    /\ workers' = [workers EXCEPT ![i] = [@ EXCEPT !.state = "body",
                                                   !.key = Head(cur.fringe)]]
    /\ cur' = [cur EXCEPT !.fringe = Tail(@)]
    /\ UNCHANGED <<g, parallelism, pc, walker, invoked, returned, multi, crashed>>
    /\ UNCHANGED WalkPIdle

\* The fringe is closed and drained: the range ends and the worker returns.
WorkerExit(i) ==
    /\ ~crashed
    /\ pc \in {"seed", "wait"}
    /\ workers[i].state = "idle"
    /\ cur.fringe = <<>>
    /\ cur.closed
    /\ workers' = [workers EXCEPT ![i] = [@ EXCEPT !.state = "exited"]]
    /\ cur' = [cur EXCEPT !.wg = @ - 1]
    /\ UNCHANGED <<g, parallelism, pc, walker, invoked, returned, multi, crashed>>
    /\ UNCHANGED WalkPIdle

\* The worker calls the bodies of its node and chooses the callback: errored
\* for a failed Execute, a failed Expand or a subgraph that does not validate,
\* expanded for an expander, complete otherwise.
Body(i, okExecute, okExpand) ==
    /\ ~crashed
    /\ workers[i].state = "body"
    /\ LET key == workers[i].key
           impl == walker.nodes[key].impl
           executeFails == impl.exec /\ ~okExecute
           expandCalled == impl.expand /\ ~executeFails
           expandFails == expandCalled /\ ~okExpand
           subgraph == ExpandResult(key, impl.sub)
       IN /\ invoked' = [invoked EXCEPT
                            !.execute = IF impl.exec THEN Incr(@, {key}) ELSE @,
                            !.expand = IF expandCalled THEN Incr(@, {key}) ELSE @]
          /\ returned' = Put(returned, key,
                             IF executeFails \/ expandFails THEN "err" ELSE "ok")
          /\ \E order \in Orders(DOMAIN subgraph.nodes) :
                LET v == validate(subgraph, order)
                    call ==
                        IF executeFails
                        THEN [NoCall EXCEPT !.kind = "errored",
                                 !.err = SerialError("failed to execute node", key, <<>>)]
                        ELSE IF expandFails
                        THEN [NoCall EXCEPT !.kind = "errored",
                                 !.err = SerialError("failed to expand node", key, <<>>)]
                        ELSE IF expandCalled /\ v.err # <<>>
                        THEN [NoCall EXCEPT !.kind = "errored",
                                 !.err = SerialError("failed to validate subgraph", key, v.err)]
                        ELSE IF expandCalled
                        THEN [kind |-> "expanded", err |-> <<>>,
                              starters |-> Sorted(v.starters),
                              finishers |-> v.finishers, nodes |-> v.nodes]
                        ELSE [NoCall EXCEPT !.kind = "complete"]
                IN workers' = [workers EXCEPT ![i] = [@ EXCEPT !.state = "report",
                                                               !.call = call]]
    /\ UNCHANGED <<g, parallelism, pc, walker, cur, multi, crashed>>
    /\ UNCHANGED WalkPIdle

\* close(fringe): a second close panics.
CloseFringe(c) == [c EXCEPT !.closed = TRUE]

\* The callback errored, and the worker's return after it.
CallErrored(i) ==
    LET key == workers[i].key
        w1 == [walker EXCEPT !.errored = Put(@, key, workers[i].call.err),
                             !.pending = @ \ {key}]
    IN /\ walker' = w1
       /\ workers' = [workers EXCEPT ![i] = [IdleWorker EXCEPT !.state = "exited"]]
       /\ IF w1.pending = {}
          THEN /\ crashed' = cur.closed
               /\ cur' = [CloseFringe(cur) EXCEPT !.wg = @ - 1]
          ELSE /\ cur' = [cur EXCEPT !.wg = @ - 1]
               /\ UNCHANGED crashed

\* The callback expanded up to its first send: with no starters it returns
\* true and the worker goes on to call complete.
CallExpanded(i) ==
    LET key == workers[i].key
        call == workers[i].call
        w1 == [walker EXCEPT
                  !.pending = @ \ {key},
                  !.nodes = call.nodes @@ @,
                  !.subgraphStarters = Put(@, key, call.finishers),
                  !.subgraphFinishers = [f \in call.finishers |-> key] @@ @]
    IN /\ walker' = w1
       /\ IF call.starters = <<>>
          THEN /\ workers' = [workers EXCEPT ![i] =
                                 [@ EXCEPT !.call = [NoCall EXCEPT !.kind = "complete"]]]
               /\ UNCHANGED cur
          ELSE /\ workers' = [workers EXCEPT ![i] =
                                 [@ EXCEPT !.state = "send", !.todo = call.starters,
                                           !.after = "continue", !.call = NoCall]]
               /\ cur' = [cur EXCEPT !.mutex = i]
       /\ UNCHANGED crashed

\* The callback complete up to its first send: the finisher check, one level
\* up, and the children whose parents are all complete.
CallComplete(i) ==
    LET key == workers[i].key
        w1 == [walker EXCEPT !.complete = @ \cup {key}, !.pending = @ \ {key}]
        isFinisher == key \in DOMAIN w1.subgraphFinishers
        starter == w1.subgraphFinishers[key]
        starterComplete ==
            /\ isFinisher
            /\ starter \in DOMAIN w1.subgraphStarters =>
                   w1.subgraphStarters[starter] \subseteq w1.complete
        w2 == IF starterComplete THEN [w1 EXCEPT !.complete = @ \cup {starter}] ELSE w1
        children == IF starterComplete THEN w2.nodes[starter].children
                    ELSE w2.nodes[key].children
    IN /\ walker' = w2
       /\ workers' = [workers EXCEPT ![i] =
             [@ EXCEPT !.state = "send", !.call = NoCall, !.after = "close",
                       !.todo = SelectSeq(children,
                           LAMBDA child : Range(w2.nodes[child].parents) \subseteq w2.complete)]]
       /\ cur' = [cur EXCEPT !.mutex = i]
       /\ UNCHANGED crashed

\* mutex.Lock() succeeds and the callback runs up to its first send.
Lock(i) ==
    /\ ~crashed
    /\ workers[i].state = "report"
    /\ cur.mutex = 0
    /\ CASE workers[i].call.kind = "errored"  -> CallErrored(i)
         [] workers[i].call.kind = "expanded" -> CallExpanded(i)
         [] OTHER                             -> CallComplete(i)
    /\ UNCHANGED <<g, parallelism, pc, invoked, returned, multi>>
    /\ UNCHANGED WalkPIdle

\* pending[child] = true; fringe <- child, inside a callback with the mutex
\* held: the send waits while the buffer is full and panics when the channel
\* is closed.
Send(i) ==
    /\ ~crashed
    /\ workers[i].state = "send"
    /\ workers[i].todo # <<>>
    /\ LET child == Head(workers[i].todo)
       IN IF cur.closed
          THEN /\ crashed' = TRUE
               /\ UNCHANGED <<walker, cur, workers>>
          ELSE /\ Len(cur.fringe) < parallelism
               /\ walker' = [walker EXCEPT !.pending = @ \cup {child}]
               /\ cur' = [cur EXCEPT !.fringe = Append(@, child)]
               /\ workers' = [workers EXCEPT ![i] = [@ EXCEPT !.todo = Tail(@)]]
               /\ UNCHANGED crashed
    /\ UNCHANGED <<g, parallelism, pc, invoked, returned, multi>>
    /\ UNCHANGED WalkPIdle

\* The end of a callback: complete closes the fringe when nothing is pending;
\* the mutex is released and the worker is back at its range.
Unlock(i) ==
    /\ ~crashed
    /\ workers[i].state = "send"
    /\ workers[i].todo = <<>>
    /\ workers' = [workers EXCEPT ![i] = IdleWorker]
    /\ IF workers[i].after = "close" /\ walker.pending = {}
       THEN /\ crashed' = cur.closed
            /\ cur' = [CloseFringe(cur) EXCEPT !.mutex = 0]
       ELSE /\ cur' = [cur EXCEPT !.mutex = 0]
            /\ UNCHANGED crashed
    /\ UNCHANGED <<g, parallelism, pc, walker, invoked, returned, multi>>
    /\ UNCHANGED WalkPIdle

\* The accesses made without the mutex: the main goroutine ranges over pending
\* while a callback writes it, and a worker reads walker.nodes[key] while the
\* callback expanded writes it. The Go runtime may stop the process with
\* 'concurrent map iteration and map write' or 'concurrent map read and map
\* write'.
WalkPRace ==
    /\ ~crashed
    /\ \/ /\ pc = "seed"
          /\ \E i \in DOMAIN workers : workers[i].state \in {"report", "send"}
       \/ \E i, j \in DOMAIN workers :
             /\ workers[i].state = "idle"
             /\ cur.fringe # <<>>
             /\ workers[j].state = "report"
             /\ workers[j].call.kind = "expanded"
             /\ DOMAIN workers[j].call.nodes # {}
    /\ crashed' = TRUE
    /\ UNCHANGED <<g, parallelism, pc, walker, cur, workers, invoked, returned, multi>>
    /\ UNCHANGED WalkPIdle

\* The steps of the goroutines of WalkP.
WalkPStep ==
    \/ WalkPBegin
    \/ \E key \in DOMAIN walker.nodes : MainSend(key)
    \/ MainSeedDone
    \/ MainReturn
    \/ \E i \in DOMAIN workers : Take(i)
    \/ \E i \in DOMAIN workers : WorkerExit(i)
    \/ \E i \in DOMAIN workers, okExecute \in BOOLEAN, okExpand \in BOOLEAN :
          Body(i, okExecute, okExpand)
    \/ \E i \in DOMAIN workers : Lock(i)
    \/ \E i \in DOMAIN workers : Send(i)
    \/ \E i \in DOMAIN workers : Unlock(i)

WalkPNext == WalkPStep \/ WalkPRace

WalkPSpec == WalkPInit /\ [][WalkPNext]_vars

\* C26: a send on the fringe made inside a callback, with the mutex held, does
\* not block forever: whenever a worker is at such a send, some goroutine of
\* WalkP can take a step.
SendNeverBlocksForever ==
    \A i \in DOMAIN workers :
        (~crashed /\ workers[i].state = "send" /\ workers[i].todo # <<>>) =>
            ENABLED WalkPStep

\* C27: a worker that reports an error stays in the pool. A worker returns
\* only when the fringe is closed, and when WalkP returns on an acyclic graph
\* every node none of whose ancestors errored has run.
ErrorKeepsPool ==
    /\ \A i \in DOMAIN workers : workers[i].state = "exited" => cur.closed
    /\ (pc = "done" /\ Acyclic(g)) =>
          \A v \in DOMAIN g.nodes :
              (\A u \in GraphAncestors(v) \cup {v} : u \notin DOMAIN walker.errored)
                  => Begun(v)

-----------------------------------------------------------------------------
\* Who touches walker.nodes.

\* The coordinator is inside walker.Expand, writing the nodes of a subgraph
\* into walker.nodes.
Splicing == pc = "expand" /\ DOMAIN cur.subgraph.nodes # {}

\* A task handed to the pool can begin now: its first statement is the lookup
\* walker.nodes[key].
LookupCanBegin == queue # {} /\ Cardinality(DOMAIN workers) < PoolSize(parallelism)

\* C31: walker.nodes is touched by the coordinator only. No task does its node
\* lookup while the coordinator writes walker.nodes in walker.Expand, and the
\* runtime never stops the process for a concurrent map read and map write.
LookupNeverOverlapsSplice ==
    /\ ~(Splicing /\ LookupCanBegin)
    /\ ~crashed

====
